---- MODULE Spec2Model ----
(***************************************************************************)
(* A model of src/bot.py: the TradingBot order pipeline (symbol            *)
(* validation, quantization to step/tick, order submission), the gateway   *)
(* queries and close_all_positions.                                        *)
(*                                                                         *)
(* Numbers are integers counting the smallest decimal unit in play: the    *)
(* code moves every value through Decimal(str(x)), so its arithmetic is    *)
(* exact decimal arithmetic and the integers stand for those decimals.     *)
(* The exchange is the environment: every client call draws its reply      *)
(* (a failure, or a payload) from a bounded set.  The bot keeps no state   *)
(* between calls, so a behaviour is one call: pc goes "ready" -> "done".   *)
(* Spec is the specification of those calls.  CliSpec is the interactive   *)
(* menu of CommandLineInterface: a loop of menu actions, each of which     *)
(* reads the texts typed at its prompts and calls one operation.           *)
(***************************************************************************)
EXTENDS Integers, Sequences, FiniteSets, TLC

VARIABLES
    pc,       \* "ready" before the call, "done" after it
    call,     \* the operation invoked and its arguments
    outcome,  \* "none" | "returned" | "raised"
    result,   \* what the operation returned (a record)
    error,    \* the exception that left the operation ("" when none)
    rpcs,     \* the client calls made during the operation, in order, with replies
    logged,   \* the logger.error messages written during the operation
    printed   \* the result lines the interactive menu printed for its last action

vars == <<pc, call, outcome, result, error, rpcs, logged, printed>>

----------------------------------------------------------------------------
(* Bounds of the model *)

MaxValue == 3       \* largest quantity / price / position amount, in units
QtyStep == 2        \* the non-zero LOT_SIZE stepSize the exchange may report
PriceTick == 3      \* the non-zero PRICE_FILTER tickSize the exchange may report
MaxPositions == 2   \* longest list the position query returns
MaxOrderId == 2     \* order ids 1..MaxOrderId

----------------------------------------------------------------------------
(* Inputs a caller may pass *)

Symbols == {"BTCUSDT", "btcusdt"}
Sides == {"BUY", "sell", "HOLD"}
TimeInForces == {"GTC", "IOC", "FOK", "gtc"}
Values == -1 .. MaxValue
SignedValues == (0 - MaxValue) .. MaxValue
OrderIds == 1 .. MaxOrderId
NoneSymbol == "<None>"      \* Python's None where a symbol is optional
SymbolFilters == {NoneSymbol, "", "BTCUSDT"}

----------------------------------------------------------------------------
(* Replies of the exchange *)

LotSize(s) == [filterType |-> "LOT_SIZE", size |-> s]
PriceFilter(t) == [filterType |-> "PRICE_FILTER", size |-> t]

NoFilters == <<>>
ZeroFilters == <<PriceFilter(0), LotSize(0)>>
StepFilters == <<PriceFilter(PriceTick), LotSize(QtyStep)>>
FilterLists == {NoFilters, ZeroFilters, StepFilters}

SymbolEntry(s, f) == [symbol |-> s, filters |-> f]

FailReply == [ok |-> FALSE, symbols |-> <<>>]

(* futures_exchange_info: the call raises, or returns a symbol list that may
   or may not hold BTCUSDT, with one of the filter lists. *)
ExchangeInfoReplies ==
    {FailReply}
    \cup {[ok |-> TRUE, symbols |-> <<SymbolEntry("ETHUSDT", StepFilters)>>]}
    \cup {[ok |-> TRUE,
           symbols |-> <<SymbolEntry("ETHUSDT", f), SymbolEntry("BTCUSDT", f)>>] :
            f \in FilterLists}

(* Sequences over S of length at most n *)
RECURSIVE SeqsUpTo(_, _)
SeqsUpTo(S, n) ==
    IF n = 0 THEN {<<>>}
    ELSE LET shorter == SeqsUpTo(S, n - 1)
         IN  shorter \cup {Append(q, x) : q \in {t \in shorter : Len(t) = n - 1}, x \in S}

(* futures_position_information: the call raises, or returns positions *)
Positions == [symbol : {"BTCUSDT", "ETHUSDT"}, positionAmt : {0 - MaxValue, 0, MaxValue}]

PositionReplies ==
    {[ok |-> FALSE, positions |-> <<>>]}
    \cup {[ok |-> TRUE, positions |-> ps] : ps \in SeqsUpTo(Positions, MaxPositions)}

(* futures_account: the call raises, or returns the assets *)
Assets ==
    {a \in [asset : {"USDT", "BNB"}, walletBalance : {0, MaxValue},
            availableBalance : {0, MaxValue}] : a.availableBalance <= a.walletBalance}

AccountReplies ==
    {[ok |-> FALSE, assets |-> <<>>]}
    \cup {[ok |-> TRUE, assets |-> as] : as \in SeqsUpTo(Assets, 2)}

----------------------------------------------------------------------------
(* Results of an operation *)

NoResult == [kind |-> "none"]

Returned(value, calls, logs) ==
    [outcome |-> "returned", value |-> value, error |-> "", rpcs |-> calls, logged |-> logs]

Raised(err, calls, logs) ==
    [outcome |-> "raised", value |-> NoResult, error |-> err, rpcs |-> calls, logged |-> logs]

ExchangeInfoCall(reply) == [rpc |-> "futures_exchange_info", reply |-> reply]

CreateOrderCall(params, ok) == [rpc |-> "futures_create_order", params |-> params, ok |-> ok]

PositionInfoCall(reply) == [rpc |-> "futures_position_information", reply |-> reply]

AccountCall(reply) == [rpc |-> "futures_account", reply |-> reply]

OrderCall(name, params, ok) == [rpc |-> name, params |-> params, ok |-> ok]

----------------------------------------------------------------------------
(* str.upper() on the side strings a caller may pass *)
Upper(s) ==
    CASE s = "buy" -> "BUY"
      [] s = "sell" -> "SELL"
      [] OTHER -> s

(* Mutant of validate_symbol: a failed query is answered True *)
validate_symbol_FailOpen(symbol, reply) ==
    IF reply.ok
    THEN [value |-> \E i \in 1 .. Len(reply.symbols) : reply.symbols[i].symbol = symbol,
          logged |-> <<>>]
    ELSE [value |-> TRUE, logged |-> <<"Error validating symbol">>]

(* TradingBot.validate_symbol: one exchange-info query; any exception is
   logged and answered False. *)
validate_symbol(symbol, reply) ==
    IF reply.ok
    THEN [value |-> \E i \in 1 .. Len(reply.symbols) : reply.symbols[i].symbol = symbol,
          logged |-> <<>>]
    ELSE [value |-> FALSE, logged |-> <<"Error validating symbol">>]

NoSymbolInfo == SymbolEntry("", <<>>)

(* TradingBot.get_symbol_info: the first entry whose symbol is equal, else None *)
get_symbol_info(symbol, reply) ==
    IF reply.ok
    THEN LET hits == {i \in 1 .. Len(reply.symbols) : reply.symbols[i].symbol = symbol}
         IN  [value |-> IF hits = {} THEN NoSymbolInfo
                        ELSE reply.symbols[CHOOSE i \in hits : \A j \in hits : i <= j],
              logged |-> <<>>]
    ELSE [value |-> NoSymbolInfo, logged |-> <<"Error getting symbol info">>]

Abs(n) == IF n < 0 THEN 0 - n ELSE n

(* Mutant of RoundDownToStep: the quotient is rounded half up (ROUND_HALF_UP) *)
RoundDownToStep_HalfUp(value, step) ==
    LET q == (2 * Abs(value) + Abs(step)) \div (2 * Abs(step))
        sign == IF (value < 0) = (step < 0) THEN 1 ELSE 0 - 1
    IN  (sign * q) * step

(* Mutant of RoundDownToStep: the quotient is rounded away from zero (ROUND_UP) *)
RoundDownToStep_Up(value, step) ==
    LET q == (Abs(value) + Abs(step) - 1) \div Abs(step)
        sign == IF (value < 0) = (step < 0) THEN 1 ELSE 0 - 1
    IN  (sign * q) * step

(* (value / step).quantize(Decimal('1.'), rounding=ROUND_DOWN) * step, step # 0:
   ROUND_DOWN drops the fraction of the quotient, i.e. rounds it towards zero. *)
RoundDownToStep(value, step) ==
    LET q == Abs(value) \div Abs(step)
        sign == IF (value < 0) = (step < 0) THEN 1 ELSE 0 - 1
    IN  (sign * q) * step

(* Mutant of AdjustToFilter: a zero size is answered 0 *)
AdjustToFilter_ZeroSizeGivesZero(symbol, value, reply, filterType, what) ==
    LET got == get_symbol_info(symbol, reply)
        info == got.value
        hits == {i \in 1 .. Len(info.filters) : info.filters[i].filterType = filterType}
    IN  IF info = NoSymbolInfo \/ hits = {}
        THEN [value |-> value, logged |-> got.logged]
        ELSE LET size == info.filters[CHOOSE i \in hits : \A j \in hits : i <= j].size
             IN  IF size = 0
                 THEN [value |-> 0, logged |-> got.logged \o <<what>>]
                 ELSE [value |-> RoundDownToStep(value, size), logged |-> got.logged]

(* The filter loop shared by adjust_quantity (LOT_SIZE) and adjust_price
   (PRICE_FILTER): the first filter of the type decides; a zero size makes the
   Decimal division raise, which is caught and logged; no filter of the type,
   or no symbol info, returns the value as given. *)
AdjustToFilter(symbol, value, reply, filterType, what) ==
    LET got == get_symbol_info(symbol, reply)
        info == got.value
        hits == {i \in 1 .. Len(info.filters) : info.filters[i].filterType = filterType}
    IN  IF info = NoSymbolInfo \/ hits = {}
        THEN [value |-> value, logged |-> got.logged]
        ELSE LET size == info.filters[CHOOSE i \in hits : \A j \in hits : i <= j].size
             IN  IF size = 0
                 THEN [value |-> value, logged |-> got.logged \o <<what>>]
                 ELSE [value |-> RoundDownToStep(value, size), logged |-> got.logged]

(* Mutant of adjust_quantity: a failed lookup is answered 0 *)
adjust_quantity_ZeroOnFailure(symbol, quantity, reply) ==
    IF get_symbol_info(symbol, reply).value = NoSymbolInfo
    THEN [value |-> 0, logged |-> get_symbol_info(symbol, reply).logged]
    ELSE AdjustToFilter(symbol, quantity, reply, "LOT_SIZE", "Error adjusting quantity")

adjust_quantity(symbol, quantity, reply) ==
    AdjustToFilter(symbol, quantity, reply, "LOT_SIZE", "Error adjusting quantity")

(* Mutant of adjust_price: the tick is read from the LOT_SIZE filter *)
adjust_price_LotSize(symbol, price, reply) ==
    AdjustToFilter(symbol, price, reply, "LOT_SIZE", "Error adjusting price")

adjust_price(symbol, price, reply) ==
    AdjustToFilter(symbol, price, reply, "PRICE_FILTER", "Error adjusting price")

----------------------------------------------------------------------------
Init ==
    /\ pc = "ready"
    /\ call = [op |-> "none"]
    /\ outcome = "none"
    /\ result = NoResult
    /\ error = ""
    /\ rpcs = <<>>
    /\ logged = <<>>
    /\ printed = <<>>

Finish(c, res) ==
    /\ pc' = "done"
    /\ call' = c
    /\ outcome' = res.outcome
    /\ result' = res.value
    /\ error' = res.error
    /\ rpcs' = res.rpcs
    /\ logged' = res.logged
    /\ UNCHANGED printed

(* Whether the k-th client call of an operation is made: a reply that is
   never asked for is pinned to the failure reply, so that each behaviour of
   the exchange is drawn once. *)
Asked(res, k) == Len(res.rpcs) >= k

----------------------------------------------------------------------------
(* Mutant of place_market_order: the quantity check is "< 0" *)
place_market_order_AcceptsZero(symbol, side, quantity, reduce_only, r1, r2, ok) ==
    LET here == <<"Error placing market order">>
        valid == validate_symbol(symbol, r1)
        qty == adjust_quantity(symbol, quantity, r2)
        params == [symbol |-> symbol, side |-> Upper(side), type |-> "MARKET",
                   quantity |-> qty.value, reduceOnly |-> reduce_only]
        calls == <<ExchangeInfoCall(r1), ExchangeInfoCall(r2), CreateOrderCall(params, ok)>>
    IN  IF Upper(side) \notin {"BUY", "SELL"}
        THEN Raised("ValueError: Side must be either 'BUY' or 'SELL'", <<>>, here)
        ELSE IF quantity < 0
        THEN Raised("ValueError: Quantity must be positive", <<>>, here)
        ELSE IF ~valid.value
        THEN Raised("ValueError: Invalid symbol", <<ExchangeInfoCall(r1)>>, valid.logged \o here)
        ELSE IF ok
        THEN Returned([kind |-> "order", order |-> params], calls, qty.logged)
        ELSE Raised("BinanceAPIException", calls,
                    qty.logged \o <<"Binance API error placing market order">>)

(* Mutant of place_market_order: the quantity is checked before the side *)
place_market_order_QuantityFirst(symbol, side, quantity, reduce_only, r1, r2, ok) ==
    LET here == <<"Error placing market order">>
        valid == validate_symbol(symbol, r1)
        qty == adjust_quantity(symbol, quantity, r2)
        params == [symbol |-> symbol, side |-> Upper(side), type |-> "MARKET",
                   quantity |-> qty.value, reduceOnly |-> reduce_only]
        calls == <<ExchangeInfoCall(r1), ExchangeInfoCall(r2), CreateOrderCall(params, ok)>>
    IN  IF quantity <= 0
        THEN Raised("ValueError: Quantity must be positive", <<>>, here)
        ELSE IF Upper(side) \notin {"BUY", "SELL"}
        THEN Raised("ValueError: Side must be either 'BUY' or 'SELL'", <<>>, here)
        ELSE IF ~valid.value
        THEN Raised("ValueError: Invalid symbol", <<ExchangeInfoCall(r1)>>, valid.logged \o here)
        ELSE IF ok
        THEN Returned([kind |-> "order", order |-> params], calls, qty.logged)
        ELSE Raised("BinanceAPIException", calls,
                    qty.logged \o <<"Binance API error placing market order">>)

(* Mutant of place_market_order: a failed futures_create_order is sent again *)
place_market_order_Retries(symbol, side, quantity, reduce_only, r1, r2, ok) ==
    LET here == <<"Error placing market order">>
        valid == validate_symbol(symbol, r1)
        qty == adjust_quantity(symbol, quantity, r2)
        params == [symbol |-> symbol, side |-> Upper(side), type |-> "MARKET",
                   quantity |-> qty.value, reduceOnly |-> reduce_only]
        calls == <<ExchangeInfoCall(r1), ExchangeInfoCall(r2), CreateOrderCall(params, ok)>>
    IN  IF Upper(side) \notin {"BUY", "SELL"}
        THEN Raised("ValueError: Side must be either 'BUY' or 'SELL'", <<>>, here)
        ELSE IF quantity <= 0
        THEN Raised("ValueError: Quantity must be positive", <<>>, here)
        ELSE IF ~valid.value
        THEN Raised("ValueError: Invalid symbol", <<ExchangeInfoCall(r1)>>, valid.logged \o here)
        ELSE IF ok
        THEN Returned([kind |-> "order", order |-> params], calls, qty.logged)
        ELSE Raised("BinanceAPIException", calls \o <<CreateOrderCall(params, ok)>>,
                    qty.logged \o <<"Binance API error placing market order">>)

(* TradingBot.place_market_order.  r1 answers validate_symbol's query, r2
   adjust_quantity's, ok says whether futures_create_order succeeds. *)
place_market_order(symbol, side, quantity, reduce_only, r1, r2, ok) ==
    LET here == <<"Error placing market order">>
        valid == validate_symbol(symbol, r1)
        qty == adjust_quantity(symbol, quantity, r2)
        params == [symbol |-> symbol, side |-> Upper(side), type |-> "MARKET",
                   quantity |-> qty.value, reduceOnly |-> reduce_only]
        calls == <<ExchangeInfoCall(r1), ExchangeInfoCall(r2), CreateOrderCall(params, ok)>>
    IN  IF Upper(side) \notin {"BUY", "SELL"}
        THEN Raised("ValueError: Side must be either 'BUY' or 'SELL'", <<>>, here)
        ELSE IF quantity <= 0
        THEN Raised("ValueError: Quantity must be positive", <<>>, here)
        ELSE IF ~valid.value
        THEN Raised("ValueError: Invalid symbol", <<ExchangeInfoCall(r1)>>, valid.logged \o here)
        ELSE IF ok
        THEN Returned([kind |-> "order", order |-> params], calls, qty.logged)
        ELSE Raised("BinanceAPIException", calls,
                    qty.logged \o <<"Binance API error placing market order">>)

(* Mutant of place_limit_order: the symbol is validated first, before the
   checks of the arguments *)
place_limit_order_SymbolFirst(symbol, side, quantity, price, time_in_force, reduce_only, r1, r2, r3, ok) ==
    LET here == <<"Error placing limit order">>
        valid == validate_symbol(symbol, r1)
        qty == adjust_quantity(symbol, quantity, r2)
        prc == adjust_price(symbol, price, r3)
        params == [symbol |-> symbol, side |-> Upper(side), type |-> "LIMIT",
                   quantity |-> qty.value, price |-> prc.value,
                   timeInForce |-> time_in_force, reduceOnly |-> reduce_only]
        asked == <<ExchangeInfoCall(r1)>>
        calls == <<ExchangeInfoCall(r1), ExchangeInfoCall(r2), ExchangeInfoCall(r3),
                   CreateOrderCall(params, ok)>>
        logs == qty.logged \o prc.logged
    IN  IF ~valid.value
        THEN Raised("ValueError: Invalid symbol", asked, valid.logged \o here)
        ELSE IF Upper(side) \notin {"BUY", "SELL"}
        THEN Raised("ValueError: Side must be either 'BUY' or 'SELL'", asked, here)
        ELSE IF quantity <= 0
        THEN Raised("ValueError: Quantity must be positive", asked, here)
        ELSE IF price <= 0
        THEN Raised("ValueError: Price must be positive", asked, here)
        ELSE IF time_in_force \notin {"GTC", "IOC", "FOK"}
        THEN Raised("ValueError: Time in force must be 'GTC', 'IOC', or 'FOK'", asked, here)
        ELSE IF ok
        THEN Returned([kind |-> "order", order |-> params], calls, logs)
        ELSE Raised("BinanceAPIException", calls,
                    logs \o <<"Binance API error placing limit order">>)

(* TradingBot.place_limit_order.  r3 answers adjust_price's query. *)
place_limit_order(symbol, side, quantity, price, time_in_force, reduce_only, r1, r2, r3, ok) ==
    LET here == <<"Error placing limit order">>
        valid == validate_symbol(symbol, r1)
        qty == adjust_quantity(symbol, quantity, r2)
        prc == adjust_price(symbol, price, r3)
        params == [symbol |-> symbol, side |-> Upper(side), type |-> "LIMIT",
                   quantity |-> qty.value, price |-> prc.value,
                   timeInForce |-> time_in_force, reduceOnly |-> reduce_only]
        calls == <<ExchangeInfoCall(r1), ExchangeInfoCall(r2), ExchangeInfoCall(r3),
                   CreateOrderCall(params, ok)>>
        logs == qty.logged \o prc.logged
    IN  IF Upper(side) \notin {"BUY", "SELL"}
        THEN Raised("ValueError: Side must be either 'BUY' or 'SELL'", <<>>, here)
        ELSE IF quantity <= 0
        THEN Raised("ValueError: Quantity must be positive", <<>>, here)
        ELSE IF price <= 0
        THEN Raised("ValueError: Price must be positive", <<>>, here)
        ELSE IF time_in_force \notin {"GTC", "IOC", "FOK"}
        THEN Raised("ValueError: Time in force must be 'GTC', 'IOC', or 'FOK'", <<>>, here)
        ELSE IF ~valid.value
        THEN Raised("ValueError: Invalid symbol", <<ExchangeInfoCall(r1)>>, valid.logged \o here)
        ELSE IF ok
        THEN Returned([kind |-> "order", order |-> params], calls, logs)
        ELSE Raised("BinanceAPIException", calls,
                    logs \o <<"Binance API error placing limit order">>)

(* Mutant of place_stop_limit_order: the side is sent as the caller gave it *)
place_stop_limit_order_SideAsGiven(symbol, side, quantity, price, stop_price, time_in_force, reduce_only, r1, r2, r3, r4, ok) ==
    LET here == <<"Error placing stop-limit order">>
        valid == validate_symbol(symbol, r1)
        qty == adjust_quantity(symbol, quantity, r2)
        prc == adjust_price(symbol, price, r3)
        stp == adjust_price(symbol, stop_price, r4)
        params == [symbol |-> symbol, side |-> side, type |-> "STOP",
                   quantity |-> qty.value, price |-> prc.value, stopPrice |-> stp.value,
                   timeInForce |-> time_in_force, reduceOnly |-> reduce_only]
        calls == <<ExchangeInfoCall(r1), ExchangeInfoCall(r2), ExchangeInfoCall(r3),
                   ExchangeInfoCall(r4), CreateOrderCall(params, ok)>>
        logs == qty.logged \o prc.logged \o stp.logged
    IN  IF Upper(side) \notin {"BUY", "SELL"}
        THEN Raised("ValueError: Side must be either 'BUY' or 'SELL'", <<>>, here)
        ELSE IF quantity <= 0
        THEN Raised("ValueError: Quantity must be positive", <<>>, here)
        ELSE IF price <= 0
        THEN Raised("ValueError: Price must be positive", <<>>, here)
        ELSE IF stop_price <= 0
        THEN Raised("ValueError: Stop price must be positive", <<>>, here)
        ELSE IF time_in_force \notin {"GTC", "IOC", "FOK"}
        THEN Raised("ValueError: Time in force must be 'GTC', 'IOC', or 'FOK'", <<>>, here)
        ELSE IF ~valid.value
        THEN Raised("ValueError: Invalid symbol", <<ExchangeInfoCall(r1)>>, valid.logged \o here)
        ELSE IF ok
        THEN Returned([kind |-> "order", order |-> params], calls, logs)
        ELSE Raised("BinanceAPIException", calls,
                    logs \o <<"Binance API error placing stop-limit order">>)

(* TradingBot.place_stop_limit_order.  r4 answers the second adjust_price. *)
place_stop_limit_order(symbol, side, quantity, price, stop_price, time_in_force, reduce_only, r1, r2, r3, r4, ok) ==
    LET here == <<"Error placing stop-limit order">>
        valid == validate_symbol(symbol, r1)
        qty == adjust_quantity(symbol, quantity, r2)
        prc == adjust_price(symbol, price, r3)
        stp == adjust_price(symbol, stop_price, r4)
        params == [symbol |-> symbol, side |-> Upper(side), type |-> "STOP",
                   quantity |-> qty.value, price |-> prc.value, stopPrice |-> stp.value,
                   timeInForce |-> time_in_force, reduceOnly |-> reduce_only]
        calls == <<ExchangeInfoCall(r1), ExchangeInfoCall(r2), ExchangeInfoCall(r3),
                   ExchangeInfoCall(r4), CreateOrderCall(params, ok)>>
        logs == qty.logged \o prc.logged \o stp.logged
    IN  IF Upper(side) \notin {"BUY", "SELL"}
        THEN Raised("ValueError: Side must be either 'BUY' or 'SELL'", <<>>, here)
        ELSE IF quantity <= 0
        THEN Raised("ValueError: Quantity must be positive", <<>>, here)
        ELSE IF price <= 0
        THEN Raised("ValueError: Price must be positive", <<>>, here)
        ELSE IF stop_price <= 0
        THEN Raised("ValueError: Stop price must be positive", <<>>, here)
        ELSE IF time_in_force \notin {"GTC", "IOC", "FOK"}
        THEN Raised("ValueError: Time in force must be 'GTC', 'IOC', or 'FOK'", <<>>, here)
        ELSE IF ~valid.value
        THEN Raised("ValueError: Invalid symbol", <<ExchangeInfoCall(r1)>>, valid.logged \o here)
        ELSE IF ok
        THEN Returned([kind |-> "order", order |-> params], calls, logs)
        ELSE Raised("BinanceAPIException", calls,
                    logs \o <<"Binance API error placing stop-limit order">>)

----------------------------------------------------------------------------
(* TradingBot.get_account_balance: the assets whose walletBalance is > 0, a
   later entry of an asset replacing an earlier one; any exception is logged
   and answered with the empty mapping. *)
RECURSIVE BalanceMap(_)
BalanceMap(assets) ==
    IF assets = <<>> THEN <<>>
    ELSE LET a == assets[Len(assets)]
             before == BalanceMap(SubSeq(assets, 1, Len(assets) - 1))
         IN  IF a.walletBalance > 0
             THEN [k \in DOMAIN before \cup {a.asset} |->
                     IF k = a.asset
                     THEN [wallet_balance |-> a.walletBalance,
                           available_balance |-> a.availableBalance]
                     ELSE before[k]]
             ELSE before

get_account_balance(reply) ==
    IF reply.ok
    THEN Returned([kind |-> "balances", assets |-> BalanceMap(reply.assets)],
                  <<AccountCall(reply)>>, <<>>)
    ELSE Returned([kind |-> "balances", assets |-> <<>>],
                  <<AccountCall(reply)>>, <<"Error getting account balance">>)

(* TradingBot.get_position: the first position of the symbol whose amount is
   not zero, else None; any exception is logged and answered None. *)
get_position(symbol, reply) ==
    LET hits == {i \in 1 .. Len(reply.positions) :
                    /\ reply.positions[i].symbol = symbol
                    /\ reply.positions[i].positionAmt # 0}
    IN  IF ~reply.ok
        THEN Returned(NoResult, <<PositionInfoCall(reply)>>, <<"Error getting position">>)
        ELSE IF hits = {}
        THEN Returned(NoResult, <<PositionInfoCall(reply)>>, <<>>)
        ELSE LET p == reply.positions[CHOOSE i \in hits : \A j \in hits : i <= j]
             IN  Returned([kind |-> "position", symbol |-> p.symbol,
                           position_amt |-> p.positionAmt],
                          <<PositionInfoCall(reply)>>, <<>>)

(* TradingBot.cancel_order *)
cancel_order(symbol, order_id, ok) ==
    LET calls == <<OrderCall("futures_cancel_order",
                             [symbol |-> symbol, orderId |-> order_id], ok)>>
    IN  IF ok
        THEN Returned([kind |-> "cancelled", symbol |-> symbol, orderId |-> order_id],
                      calls, <<>>)
        ELSE Raised("BinanceAPIException", calls, <<"Error cancelling order">>)

(* TradingBot.get_order_status *)
get_order_status(symbol, order_id, ok) ==
    LET calls == <<OrderCall("futures_get_order",
                             [symbol |-> symbol, orderId |-> order_id], ok)>>
    IN  IF ok
        THEN Returned([kind |-> "order", symbol |-> symbol, orderId |-> order_id],
                      calls, <<>>)
        ELSE Raised("BinanceAPIException", calls, <<"Error getting order status">>)

(* TradingBot.get_open_orders: the symbol is passed on only when it is truthy *)
get_open_orders(symbol, ok) ==
    LET calls == <<OrderCall("futures_get_open_orders",
                             IF symbol # NoneSymbol /\ symbol # ""
                             THEN [symbol |-> symbol] ELSE [all |-> TRUE], ok)>>
    IN  IF ok
        THEN Returned([kind |-> "orders"], calls, <<>>)
        ELSE Raised("BinanceAPIException", calls, <<"Error getting open orders">>)

(* Mutant of ClosePosition: the order is placed on the side of the position *)
ClosePosition_SameSide(position, symbol, e) ==
    LET position_amt == position.positionAmt
        close_side == IF position_amt > 0 THEN "BUY" ELSE "SELL"
        close_qty == Abs(position_amt)
        res == place_market_order(position.symbol, close_side, close_qty, TRUE,
                                  e.validate, e.lookup, e.create)
    IN  IF symbol # NoneSymbol /\ symbol # "" /\ position.symbol # symbol
        THEN [rpcs |-> <<>>, logged |-> <<>>]
        ELSE IF position_amt # 0
        THEN [rpcs |-> res.rpcs,
              logged |-> res.logged \o (IF res.outcome = "raised"
                                        THEN <<"Error closing position">> ELSE <<>>)]
        ELSE [rpcs |-> <<>>, logged |-> <<>>]

(* The body of close_all_positions' loop for one position: a position of
   another symbol (when a truthy symbol is given) or of amount zero is skipped;
   otherwise place_market_order is called, and an exception leaving it is
   logged and dropped.  e holds the replies to that call's client calls. *)
ClosePosition(position, symbol, e) ==
    LET position_amt == position.positionAmt
        close_side == IF position_amt > 0 THEN "SELL" ELSE "BUY"
        close_qty == Abs(position_amt)
        res == place_market_order(position.symbol, close_side, close_qty, TRUE,
                                  e.validate, e.lookup, e.create)
    IN  IF symbol # NoneSymbol /\ symbol # "" /\ position.symbol # symbol
        THEN [rpcs |-> <<>>, logged |-> <<>>]
        ELSE IF position_amt # 0
        THEN [rpcs |-> res.rpcs,
              logged |-> res.logged \o (IF res.outcome = "raised"
                                        THEN <<"Error closing position">> ELSE <<>>)]
        ELSE [rpcs |-> <<>>, logged |-> <<>>]

RECURSIVE CloseLoop(_, _, _)
CloseLoop(positions, symbol, envs) ==
    IF positions = <<>> THEN [rpcs |-> <<>>, logged |-> <<>>]
    ELSE LET one == ClosePosition(Head(positions), symbol, Head(envs))
             rest == CloseLoop(Tail(positions), symbol, Tail(envs))
         IN  [rpcs |-> one.rpcs \o rest.rpcs, logged |-> one.logged \o rest.logged]

(* Mutant of close_all_positions: without the inner try, the first position
   whose order fails ends the loop and the exception reaches the caller *)
close_all_positions_NoInnerTry(symbol, reply, envs) ==
    LET n == Len(reply.positions)
        failing == {i \in 1 .. n :
                      LET one == ClosePosition(reply.positions[i], symbol, envs[i])
                      IN  one.logged # <<>>
                          /\ one.logged[Len(one.logged)] = "Error closing position"}
        last == IF failing = {} THEN n ELSE CHOOSE i \in failing : \A j \in failing : i <= j
        loop == CloseLoop(SubSeq(reply.positions, 1, last), symbol, SubSeq(envs, 1, last))
    IN  IF ~reply.ok
        THEN Raised("BinanceAPIException", <<PositionInfoCall(reply)>>,
                    <<"Error in close_all_positions">>)
        ELSE IF failing = {}
        THEN Returned(NoResult, <<PositionInfoCall(reply)>> \o loop.rpcs, loop.logged)
        ELSE Raised("BinanceAPIException", <<PositionInfoCall(reply)>> \o loop.rpcs,
                    loop.logged \o <<"Error in close_all_positions">>)

(* TradingBot.close_all_positions: a failure of the position query is logged
   and raised; otherwise the loop runs over every position and None is
   returned.  envs[i] holds the replies for position i. *)
close_all_positions(symbol, reply, envs) ==
    IF ~reply.ok
    THEN Raised("BinanceAPIException", <<PositionInfoCall(reply)>>,
                <<"Error in close_all_positions">>)
    ELSE LET loop == CloseLoop(reply.positions, symbol, envs)
         IN  Returned(NoResult, <<PositionInfoCall(reply)>> \o loop.rpcs, loop.logged)

(* The replies drawn for one position of close_all_positions: the exchange's
   symbol list is the same through the operation, and each client call either
   fails or succeeds; replies to calls that are not made are pinned. *)
PositionEnvs(position, symbol, listing) ==
    {e \in [validate : {FailReply, listing}, lookup : {FailReply, listing},
            create : BOOLEAN] :
        LET n == Len(ClosePosition(position, symbol, e).rpcs)
        IN  /\ n >= 1 \/ e.validate = FailReply
            /\ n >= 2 \/ (e.lookup = FailReply /\ ~e.create)}

RECURSIVE EnvSeqs(_, _, _)
EnvSeqs(positions, symbol, listing) ==
    IF positions = <<>> THEN {<<>>}
    ELSE {<<e>> \o rest : e \in PositionEnvs(Head(positions), symbol, listing),
                         rest \in EnvSeqs(Tail(positions), symbol, listing)}
----------------------------------------------------------------------------
(* A direct call of adjust_quantity *)
AdjustQuantity ==
    /\ pc = "ready"
    /\ \E symbol \in Symbols, quantity \in SignedValues, reply \in ExchangeInfoReplies :
         LET got == adjust_quantity(symbol, quantity, reply)
         IN  Finish([op |-> "adjust_quantity", symbol |-> symbol, value |-> quantity],
                    Returned([kind |-> "number", number |-> got.value],
                             <<ExchangeInfoCall(reply)>>, got.logged))

(* A direct call of adjust_price *)
AdjustPrice ==
    /\ pc = "ready"
    /\ \E symbol \in Symbols, price \in SignedValues, reply \in ExchangeInfoReplies :
         LET got == adjust_price(symbol, price, reply)
         IN  Finish([op |-> "adjust_price", symbol |-> symbol, value |-> price],
                    Returned([kind |-> "number", number |-> got.value],
                             <<ExchangeInfoCall(reply)>>, got.logged))

PlaceMarketOrder ==
    /\ pc = "ready"
    /\ \E symbol \in Symbols, side \in Sides, quantity \in Values, reduce_only \in BOOLEAN :
       \E r1 \in ExchangeInfoReplies :
         /\ r1 = FailReply
            \/ Asked(place_market_order(symbol, side, quantity, reduce_only,
                                        r1, FailReply, FALSE), 1)
         /\ \E r2 \in ExchangeInfoReplies, ok \in BOOLEAN :
              LET res == place_market_order(symbol, side, quantity, reduce_only, r1, r2, ok)
              IN  /\ (r2 = FailReply /\ ~ok) \/ Asked(res, 2)
                  /\ Finish([op |-> "place_market_order", symbol |-> symbol, side |-> side,
                             quantity |-> quantity, reduce_only |-> reduce_only], res)

PlaceLimitOrder ==
    /\ pc = "ready"
    /\ \E symbol \in Symbols, side \in Sides, quantity \in Values, price \in Values,
          time_in_force \in TimeInForces, reduce_only \in BOOLEAN :
       \E r1 \in ExchangeInfoReplies :
         /\ r1 = FailReply
            \/ Asked(place_limit_order(symbol, side, quantity, price, time_in_force,
                                       reduce_only, r1, FailReply, FailReply, FALSE), 1)
         /\ \E r2 \in ExchangeInfoReplies, r3 \in ExchangeInfoReplies, ok \in BOOLEAN :
              LET res == place_limit_order(symbol, side, quantity, price, time_in_force,
                                           reduce_only, r1, r2, r3, ok)
              IN  /\ (r2 = FailReply /\ r3 = FailReply /\ ~ok) \/ Asked(res, 2)
                  /\ Finish([op |-> "place_limit_order", symbol |-> symbol, side |-> side,
                             quantity |-> quantity, price |-> price,
                             time_in_force |-> time_in_force,
                             reduce_only |-> reduce_only], res)

PlaceStopLimitOrder ==
    /\ pc = "ready"
    /\ \E symbol \in Symbols, side \in Sides, quantity \in Values, price \in Values,
          stop_price \in Values, time_in_force \in TimeInForces, reduce_only \in BOOLEAN :
       \E r1 \in ExchangeInfoReplies :
         /\ r1 = FailReply
            \/ Asked(place_stop_limit_order(symbol, side, quantity, price, stop_price,
                                            time_in_force, reduce_only,
                                            r1, FailReply, FailReply, FailReply, FALSE), 1)
         /\ \E r2 \in ExchangeInfoReplies, r3 \in ExchangeInfoReplies,
               r4 \in ExchangeInfoReplies, ok \in BOOLEAN :
              LET res == place_stop_limit_order(symbol, side, quantity, price, stop_price,
                                                time_in_force, reduce_only, r1, r2, r3, r4, ok)
              IN  /\ (r2 = FailReply /\ r3 = FailReply /\ r4 = FailReply /\ ~ok)
                     \/ Asked(res, 2)
                  /\ Finish([op |-> "place_stop_limit_order", symbol |-> symbol,
                             side |-> side, quantity |-> quantity, price |-> price,
                             stop_price |-> stop_price, time_in_force |-> time_in_force,
                             reduce_only |-> reduce_only], res)

GetAccountBalance ==
    /\ pc = "ready"
    /\ \E reply \in AccountReplies :
         Finish([op |-> "get_account_balance"], get_account_balance(reply))

GetPosition ==
    /\ pc = "ready"
    /\ \E symbol \in Symbols, reply \in PositionReplies :
         Finish([op |-> "get_position", symbol |-> symbol], get_position(symbol, reply))

CancelOrder ==
    /\ pc = "ready"
    /\ \E symbol \in Symbols, order_id \in OrderIds, ok \in BOOLEAN :
         Finish([op |-> "cancel_order", symbol |-> symbol, order_id |-> order_id],
                cancel_order(symbol, order_id, ok))

GetOrderStatus ==
    /\ pc = "ready"
    /\ \E symbol \in Symbols, order_id \in OrderIds, ok \in BOOLEAN :
         Finish([op |-> "get_order_status", symbol |-> symbol, order_id |-> order_id],
                get_order_status(symbol, order_id, ok))

GetOpenOrders ==
    /\ pc = "ready"
    /\ \E symbol \in SymbolFilters, ok \in BOOLEAN :
         Finish([op |-> "get_open_orders", symbol |-> symbol], get_open_orders(symbol, ok))

CloseAllPositions ==
    /\ pc = "ready"
    /\ \E symbol \in SymbolFilters, reply \in PositionReplies,
          listing \in ExchangeInfoReplies \ {FailReply} :
       \E envs \in EnvSeqs(reply.positions, symbol, listing) :
         Finish([op |-> "close_all_positions", symbol |-> symbol],
                close_all_positions(symbol, reply, envs))

Next ==
    \/ AdjustQuantity
    \/ AdjustPrice
    \/ PlaceMarketOrder
    \/ PlaceLimitOrder
    \/ PlaceStopLimitOrder
    \/ GetAccountBalance
    \/ GetPosition
    \/ CancelOrder
    \/ GetOrderStatus
    \/ GetOpenOrders
    \/ CloseAllPositions

Spec == Init /\ [][Next]_vars

----------------------------------------------------------------------------
(* The interactive menu (CommandLineInterface).  Texts a user may type: *)

NotAsked == "<not asked>"       \* the text of a prompt the action never reached
SymbolTexts == {"btcusdt"}
OptionalSymbolTexts == {"", "btcusdt"}
SideTexts == {"buy", "sell", "hold"}
NumberTexts == {"2", "0", "abc"}
OrderIdTexts == {"1", "1.5", "abc"}
AnswerTexts == {"Y", ""}
InvalidChoices == {"x", "10"}

(* input(...).strip().upper() on the texts above *)
StripUpper(text) ==
    CASE text = "btcusdt" -> "BTCUSDT"
      [] text = "hold" -> "HOLD"
      [] OTHER -> Upper(text)

(* input(...).strip().lower() on the texts above *)
StripLower(text) ==
    CASE text = "Y" -> "y"
      [] OTHER -> text

(* float(text): the number, or a ValueError *)
ParseFloat(text) ==
    CASE text = "2" -> [ok |-> TRUE, value |-> 2]
      [] text = "0" -> [ok |-> TRUE, value |-> 0]
      [] OTHER -> [ok |-> FALSE, value |-> 0]

(* int(text): the number, or a ValueError ("1.5" is no integer literal) *)
ParseInt(text) ==
    CASE text = "1" -> [ok |-> TRUE, value |-> 1]
      [] OTHER -> [ok |-> FALSE, value |-> 0]

(* The exchange as the menu sees it: a query fails or returns this list *)
CliListing ==
    [ok |-> TRUE,
     symbols |-> <<SymbolEntry("ETHUSDT", StepFilters), SymbolEntry("BTCUSDT", StepFilters)>>]

CliReplies == {FailReply, CliListing}
CliPositionReplies == {r \in PositionReplies : Len(r.positions) <= 1}
CliAccountReplies == {r \in AccountReplies : Len(r.assets) <= 1}

(* What a menu action leaves behind: where control is afterwards ("menu": back
   at the prompt of main_menu; "exited": the loop ended; "crashed": an
   exception left main_menu), the operation's result, the lines printed, and
   the prompts that were answered. *)
MenuResult(next, res, lines, reads) ==
    [pc |-> next, res |-> res, printed |-> lines, reads |-> reads]

(* An exception nothing in the menu catches: it leaves the handler, main_menu
   and main, none of which has a try around it *)
Unhandled(err, calls, logs, reads) ==
    MenuResult("crashed", Raised(err, calls, logs), <<>>, reads)

FloatError == "ValueError: could not convert string to float"
IntError == "ValueError: invalid literal for int() with base 10"

(* The end of a handler's try block: the success line when the operation
   returned, the line of its except block when it raised; either way the
   handler returns to main_menu *)
AfterCall(res, done, failed, reads) ==
    MenuResult("menu", res, IF res.outcome = "returned" THEN <<done>> ELSE <<failed>>, reads)

(* The client calls made by the menu itself come before the operation's *)
Following(asked, res) == [res EXCEPT !.rpcs = asked \o res.rpcs]

(* CommandLineInterface.place_order_menu.  typed holds the texts typed at the
   prompts; v answers the menu's own validate_symbol query; r1, lookup and ok
   answer the client calls of the place_* operation (validation, quantization
   lookups, futures_create_order).  The float() conversions stand before the
   try, so their ValueError is not caught. *)
place_order_menu(order_type, typed, v, r1, lookup, ok) ==
    LET symbol == StripUpper(typed.symbol)
        valid == validate_symbol(symbol, v)
        asked == <<ExchangeInfoCall(v)>>
        side == StripUpper(typed.side)
        quantity == ParseFloat(typed.quantity)
        price == ParseFloat(typed.price)
        stop_price == ParseFloat(typed.stop_price)
        reduce_only == StripLower(typed.reduce_only) = "y"
        priced == order_type \in {"LIMIT", "STOP_LIMIT"}
        stopped == order_type = "STOP_LIMIT"
        upToQuantity == {"symbol", "side", "quantity"}
        upToPrice == upToQuantity \cup (IF priced THEN {"price"} ELSE {})
        upToStop == upToPrice \cup (IF stopped THEN {"stop_price"} ELSE {})
    IN  IF ~valid.value
        THEN MenuResult("menu", Returned(NoResult, asked, valid.logged),
                        <<"Invalid symbol">>, {"symbol"})
        ELSE IF side \notin {"BUY", "SELL"}
        THEN MenuResult("menu", Returned(NoResult, asked, <<>>),
                        <<"Invalid side. Must be BUY or SELL">>, {"symbol", "side"})
        ELSE IF ~quantity.ok
        THEN Unhandled(FloatError, asked, <<>>, upToQuantity)
        ELSE IF priced /\ ~price.ok
        THEN Unhandled(FloatError, asked, <<>>, upToPrice)
        ELSE IF stopped /\ ~stop_price.ok
        THEN Unhandled(FloatError, asked, <<>>, upToStop)
        ELSE AfterCall(
                Following(asked,
                    CASE order_type = "MARKET" ->
                           place_market_order(symbol, side, quantity.value, reduce_only,
                                              r1, lookup, ok)
                      [] order_type = "LIMIT" ->
                           place_limit_order(symbol, side, quantity.value, price.value,
                                             "GTC", reduce_only, r1, lookup, lookup, ok)
                      [] OTHER ->
                           place_stop_limit_order(symbol, side, quantity.value, price.value,
                                                  stop_price.value, "GTC", reduce_only,
                                                  r1, lookup, lookup, lookup, ok)),
                "Order placed successfully!", "Error placing order",
                upToStop \cup {"reduce_only"})

(* CommandLineInterface.check_order_status_menu: int() stands before the try *)
check_order_status_menu(typed, ok) ==
    LET symbol == StripUpper(typed.symbol)
        order_id == ParseInt(typed.order_id)
    IN  IF ~order_id.ok
        THEN Unhandled(IntError, <<>>, <<>>, {"symbol", "order_id"})
        ELSE AfterCall(get_order_status(symbol, order_id.value, ok),
                       "Order Status:", "Error checking order status",
                       {"symbol", "order_id"})

(* CommandLineInterface.cancel_order_menu: int() stands before the try *)
cancel_order_menu(typed, ok) ==
    LET symbol == StripUpper(typed.symbol)
        order_id == ParseInt(typed.order_id)
        confirm == StripLower(typed.confirm)
    IN  IF ~order_id.ok
        THEN Unhandled(IntError, <<>>, <<>>, {"symbol", "order_id"})
        ELSE IF confirm # "y"
        THEN MenuResult("menu", Returned(NoResult, <<>>, <<>>),
                        <<"Cancellation aborted">>, {"symbol", "order_id", "confirm"})
        ELSE AfterCall(cancel_order(symbol, order_id.value, ok),
                       "Order cancelled successfully", "Error cancelling order",
                       {"symbol", "order_id", "confirm"})

(* CommandLineInterface.view_open_orders_menu: an empty text asks for all *)
view_open_orders_menu(typed, ok) ==
    LET symbol == StripUpper(typed.symbol)
    IN  AfterCall(get_open_orders(IF symbol # "" THEN symbol ELSE NoneSymbol, ok),
                  "Open Orders", "Error fetching open orders", {"symbol"})

(* The lines view_balance and initialize_bot print for a balance mapping *)
BalanceLines(res, lines) ==
    IF res.value.assets = <<>> THEN <<"No balance information available">> ELSE lines

(* CommandLineInterface.view_balance: get_account_balance raises nothing *)
ShowBalance(res) ==
    MenuResult("menu", res, BalanceLines(res, <<"Total Available Balance">>), {})

view_balance(reply) == ShowBalance(get_account_balance(reply))

(* CommandLineInterface.view_position_menu: get_position raises nothing *)
ShowPosition(res) ==
    MenuResult("menu", res,
               IF res.value # NoResult THEN <<"Position for symbol">>
               ELSE <<"No position found">>,
               {"symbol"})

view_position_menu(typed, reply) == ShowPosition(get_position(StripUpper(typed.symbol), reply))

(* CommandLineInterface.close_positions_menu *)
close_positions_menu(typed, reply, envs) ==
    LET symbol == StripUpper(typed.symbol)
        confirm == StripLower(typed.confirm)
    IN  IF confirm # "y"
        THEN MenuResult("menu", Returned(NoResult, <<>>, <<>>),
                        <<"Operation cancelled">>, {"symbol", "confirm"})
        ELSE AfterCall(close_all_positions(IF symbol # "" THEN symbol ELSE NoneSymbol,
                                           reply, envs),
                       "Closed all positions", "Error closing positions",
                       {"symbol", "confirm"})

(* CommandLineInterface.initialize_bot: the constructor and the balance query
   run inside a try; True when nothing was raised *)
ShowInitialized(res) ==
    MenuResult("menu", res,
               <<"Bot initialized successfully!">> \o BalanceLines(res, <<"Account Balance:">>),
               {"api_key", "api_secret"})

initialize_bot(constructed, reply) ==
    IF ~constructed
    THEN MenuResult("not started", Raised("Exception", <<>>, <<>>),
                    <<"Error initializing bot">>, {"api_key", "api_secret"})
    ELSE ShowInitialized(get_account_balance(reply))

OrderTypeOf(choice) ==
    CASE choice = "1" -> "MARKET"
      [] choice = "2" -> "LIMIT"
      [] OTHER -> "STOP_LIMIT"

(* A prompt that is not reached has no text, and a prompt that is reached has one *)
AnsweredAsRead(typed, reads) ==
    \A f \in DOMAIN typed : (f \in reads) <=> (typed[f] # NotAsked)

(* The prompts of place_order_menu, in the order they are shown, and the
   texts a user may type at each *)
PromptOrder == <<"symbol", "side", "quantity", "price", "stop_price", "reduce_only">>

TextsFor(prompt) ==
    CASE prompt = "symbol" -> SymbolTexts
      [] prompt = "side" -> SideTexts
      [] prompt = "reduce_only" -> AnswerTexts
      [] OTHER -> NumberTexts

NothingTyped == [f \in {PromptOrder[i] : i \in 1 .. Len(PromptOrder)} |-> NotAsked]

(* The texts typed through one run of place_order_menu: each prompt the
   handler reaches is answered, in order, and a prompt it does not reach (it
   returned or raised before) stays unanswered. *)
RECURSIVE PlaceOrderTypings(_, _, _)
PlaceOrderTypings(order_type, typed, v) ==
    LET m == place_order_menu(order_type, typed, v, FailReply, FailReply, FALSE)
        open == {i \in 1 .. Len(PromptOrder) :
                    PromptOrder[i] \in m.reads /\ typed[PromptOrder[i]] = NotAsked}
    IN  IF open = {} THEN {typed}
        ELSE LET f == PromptOrder[CHOOSE i \in open : \A j \in open : i <= j]
             IN  UNION {PlaceOrderTypings(order_type, [typed EXCEPT ![f] = t], v) :
                          t \in TextsFor(f)}

CliInit ==
    /\ pc = "start"
    /\ call = [op |-> "none"]
    /\ outcome = "none"
    /\ result = NoResult
    /\ error = ""
    /\ rpcs = <<>>
    /\ logged = <<>>
    /\ printed = <<>>

CliFinish(c, m) ==
    /\ pc' = m.pc
    /\ call' = c
    /\ outcome' = m.res.outcome
    /\ result' = m.res.value
    /\ error' = m.res.error
    /\ rpcs' = m.res.rpcs
    /\ logged' = m.res.logged
    /\ printed' = m.printed

MenuCall(choice, typed) == [op |-> "main_menu", choice |-> choice, typed |-> typed]

(* main(), interactive mode: main_menu is entered when initialize_bot is True *)
CliInitializeBot ==
    /\ pc = "start"
    /\ \E constructed \in BOOLEAN, reply \in CliAccountReplies :
         /\ constructed \/ ~reply.ok
         /\ CliFinish([op |-> "initialize_bot"], initialize_bot(constructed, reply))

(* choice '0' *)
CliExit ==
    /\ pc = "menu"
    /\ CliFinish(MenuCall("0", <<>>),
                 MenuResult("exited", Returned(NoResult, <<>>, <<>>),
                            <<"Exiting... Goodbye!">>, {}))

(* The replies to client calls the operation never makes are pinned to the
   failure reply *)
PlaceOrderPinned(m, r1, lookup, ok) ==
    /\ r1 = FailReply \/ ("reduce_only" \in m.reads /\ Len(m.res.rpcs) >= 2)
    /\ (lookup = FailReply /\ ~ok) \/ ("reduce_only" \in m.reads /\ Len(m.res.rpcs) >= 3)

CliPlaceOrderStep(choice, typed, r1, lookup, ok, m) ==
    /\ PlaceOrderPinned(m, r1, lookup, ok)
    /\ CliFinish(MenuCall(choice, typed), m)

(* choices '1', '2', '3' *)
CliPlaceOrder ==
    /\ pc = "menu"
    /\ \E choice \in {"1", "2", "3"}, v \in CliReplies :
       \E typed \in PlaceOrderTypings(OrderTypeOf(choice), NothingTyped, v) :
       \E r1 \in CliReplies, lookup \in CliReplies, ok \in BOOLEAN :
         CliPlaceOrderStep(choice, typed, r1, lookup, ok,
                           place_order_menu(OrderTypeOf(choice), typed, v, r1, lookup, ok))

(* choice '4' *)
CliCheckOrderStatus ==
    /\ pc = "menu"
    /\ \E typed \in [symbol : SymbolTexts, order_id : OrderIdTexts], ok \in BOOLEAN :
         /\ ok => ParseInt(typed.order_id).ok
         /\ CliFinish(MenuCall("4", typed), check_order_status_menu(typed, ok))

CliCancelOrderStep(typed, ok, m) ==
    /\ AnsweredAsRead(typed, m.reads)
    /\ ok => m.res.rpcs # <<>>
    /\ CliFinish(MenuCall("5", typed), m)

(* choice '5' *)
CliCancelOrder ==
    /\ pc = "menu"
    /\ \E typed \in [symbol : SymbolTexts, order_id : OrderIdTexts,
                     confirm : AnswerTexts \cup {NotAsked}], ok \in BOOLEAN :
         CliCancelOrderStep(typed, ok, cancel_order_menu(typed, ok))

(* choice '6' *)
CliViewOpenOrders ==
    /\ pc = "menu"
    /\ \E typed \in [symbol : OptionalSymbolTexts], ok \in BOOLEAN :
         CliFinish(MenuCall("6", typed), view_open_orders_menu(typed, ok))

(* choice '7' *)
CliViewBalance ==
    /\ pc = "menu"
    /\ \E reply \in CliAccountReplies :
         CliFinish(MenuCall("7", <<>>), view_balance(reply))

(* choice '8' *)
CliViewPosition ==
    /\ pc = "menu"
    /\ \E typed \in [symbol : SymbolTexts], reply \in CliPositionReplies :
         CliFinish(MenuCall("8", typed), view_position_menu(typed, reply))

(* choice '9' *)
CliClosePositions ==
    /\ pc = "menu"
    /\ \E typed \in [symbol : OptionalSymbolTexts, confirm : AnswerTexts],
          reply \in CliPositionReplies :
         /\ StripLower(typed.confirm) = "y" \/ (~reply.ok /\ reply.positions = <<>>)
         /\ \E envs \in EnvSeqs(reply.positions,
                                IF typed.symbol # "" THEN StripUpper(typed.symbol)
                                ELSE NoneSymbol, CliListing) :
              CliFinish(MenuCall("9", typed), close_positions_menu(typed, reply, envs))

(* any other choice *)
CliInvalidChoice ==
    /\ pc = "menu"
    /\ \E choice \in InvalidChoices :
         CliFinish(MenuCall(choice, <<>>),
                   MenuResult("menu", Returned(NoResult, <<>>, <<>>),
                              <<"Invalid choice. Please try again.">>, {}))

CliNext ==
    \/ CliInitializeBot
    \/ CliExit
    \/ CliPlaceOrder
    \/ CliCheckOrderStatus
    \/ CliCancelOrder
    \/ CliViewOpenOrders
    \/ CliViewBalance
    \/ CliViewPosition
    \/ CliClosePositions
    \/ CliInvalidChoice

CliSpec == CliInit /\ [][CliNext]_vars

----------------------------------------------------------------------------
(* Properties.  What follows reads the variables only; it models no code. *)

PlaceOps == {"place_market_order", "place_limit_order", "place_stop_limit_order"}
PricedOps == {"place_limit_order", "place_stop_limit_order"}

Placed == pc = "done" /\ call.op \in PlaceOps

IsCreateOrder(c) == c.rpc = "futures_create_order"
IsExchangeInfo(c) == c.rpc = "futures_exchange_info"

CreateOrders == SelectSeq(rpcs, IsCreateOrder)

(* The exchange-info reply lists the symbol, letter for letter *)
Lists(reply, symbol) ==
    reply.ok /\ \E i \in 1 .. Len(reply.symbols) : reply.symbols[i].symbol = symbol

(* The sizes an exchange-info reply reports for a symbol under a filter type *)
ReportedSizes(reply, symbol, filterType) ==
    IF ~reply.ok THEN {}
    ELSE UNION {{e.filters[j].size :
                    j \in {k \in 1 .. Len(e.filters) : e.filters[k].filterType = filterType}} :
                e \in {reply.symbols[i] :
                         i \in {k \in 1 .. Len(reply.symbols) :
                                  reply.symbols[k].symbol = symbol}}}

(* The lookup found a filter of the type with a size other than zero *)
FoundStep(reply, symbol, filterType) ==
    \E s \in ReportedSizes(reply, symbol, filterType) : s # 0

(* A rejected argument of a place_* call, the side compared as given *)
BadNumbersOrTif ==
    \/ call.quantity <= 0
    \/ call.op \in PricedOps /\ call.price <= 0
    \/ call.op = "place_stop_limit_order" /\ call.stop_price <= 0
    \/ call.op \in PricedOps /\ call.time_in_force \notin {"GTC", "IOC", "FOK"}

RejectedUnsent == outcome = "raised" /\ CreateOrders = <<>>

(* C1 as stated: a place_* call whose quantity, price or stop_price is <= 0,
   whose time_in_force is not GTC/IOC/FOK, or whose side is neither "BUY" nor
   "SELL", raises and sends no createOrder request. *)
C1_AsStated ==
    (Placed /\ (BadNumbersOrTif \/ call.side \notin {"BUY", "SELL"})) => RejectedUnsent

(* C1 amended: the same, the side being rejected when its upper-cased form is
   neither "BUY" nor "SELL" (a lower-case "sell" is accepted and sent as SELL). *)
C1_RejectsBadArguments ==
    (Placed /\ (BadNumbersOrTif \/ Upper(call.side) \notin {"BUY", "SELL"})) => RejectedUnsent

C1_Witness ==
    /\ Placed
    /\ call.op = "place_stop_limit_order"
    /\ call.side = "BUY" /\ call.quantity > 0 /\ call.price > 0
    /\ call.stop_price = 0 /\ call.time_in_force = "GTC"
    /\ RejectedUnsent

(* C2: in a place_* call a createOrder request is sent only after the call's
   first client call, the validation query, succeeded and listed the exact
   symbol; when that query fails or does not list the symbol, the call raises
   and sends no createOrder request. *)
C2_ValidatedBeforeSubmit ==
    Placed =>
        /\ CreateOrders # <<>> =>
             /\ IsExchangeInfo(rpcs[1])
             /\ Lists(rpcs[1].reply, call.symbol)
             /\ \A j \in 1 .. Len(rpcs) : IsCreateOrder(rpcs[j]) => j > 1
        /\ (rpcs # <<>> /\ ~Lists(rpcs[1].reply, call.symbol)) => RejectedUnsent

C2_Witness ==
    /\ Placed
    /\ call.symbol = "btcusdt"
    /\ rpcs # <<>> /\ rpcs[1].reply.ok
    /\ Lists(rpcs[1].reply, "BTCUSDT")
    /\ RejectedUnsent

AdjustOps == {"adjust_quantity", "adjust_price"}
FilterTypeOf(op) == IF op = "adjust_quantity" THEN "LOT_SIZE" ELSE "PRICE_FILTER"

Adjusted == pc = "done" /\ call.op \in AdjustOps

(* The step found by a direct adjust_* call, when it is > 0 *)
AdjustSteps ==
    {s \in ReportedSizes(rpcs[1].reply, call.symbol, FilterTypeOf(call.op)) : s > 0}

(* C3 as stated: for every step > 0 found and every value v, adjust_quantity
   and adjust_price return step * floor(v / step), a multiple of step that is
   <= v and > v - step. *)
C3_AsStated ==
    Adjusted =>
        \A step \in AdjustSteps :
            /\ result.number = step * (call.value \div step)
            /\ result.number <= call.value
            /\ result.number > call.value - step

(* C3 amended: for every step > 0 found and every value v >= 0 the result is
   step * floor(v / step), a non-negative multiple of step, <= v and
   > v - step; for v < 0 the quotient is rounded towards zero, so the result
   is -(step * floor(-v / step)), a multiple of step that is >= v and < v + step. *)
C3_RoundsTowardsZero ==
    Adjusted =>
        \A step \in AdjustSteps :
            /\ result.number % step = 0
            /\ call.value >= 0 =>
                 /\ result.number = step * (call.value \div step)
                 /\ result.number >= 0
                 /\ result.number <= call.value
                 /\ result.number > call.value - step
            /\ call.value < 0 =>
                 /\ result.number = 0 - (step * ((0 - call.value) \div step))
                 /\ result.number >= call.value
                 /\ result.number < call.value + step

C3_Witness ==
    /\ Adjusted
    /\ call.op = "adjust_quantity"
    /\ \E step \in AdjustSteps :
         /\ call.value > step
         /\ call.value % step # 0
         /\ result.number = step

(* The createOrder request of a place_* call, when one was sent *)
Sent == CreateOrders[1].params

(* C4 as stated: every createOrder request of a place_* call carries a
   quantity that is a multiple of the quantity step the exchange metadata
   reported for the symbol during the call, and a price and stopPrice that are
   multiples of the price tick it reported. *)
C4_AsStated ==
    (Placed /\ CreateOrders # <<>>) =>
        \A k \in 1 .. Len(rpcs) :
            IsExchangeInfo(rpcs[k]) =>
                /\ \A s \in ReportedSizes(rpcs[k].reply, call.symbol, "LOT_SIZE") :
                      s > 0 => Sent.quantity % s = 0
                /\ \A t \in ReportedSizes(rpcs[k].reply, call.symbol, "PRICE_FILTER") :
                      t > 0 => /\ call.op \in PricedOps => Sent.price % t = 0
                               /\ call.op = "place_stop_limit_order" => Sent.stopPrice % t = 0

(* C4 amended: the quantity of every createOrder request of a place_* call is
   a multiple of the LOT_SIZE step found by that call's adjust_quantity lookup
   (its second client call) whenever that lookup finds a step other than zero,
   and the price and the stopPrice are multiples of the PRICE_FILTER tick found
   by their own adjust_price lookups (the third and fourth client calls)
   whenever those find a tick other than zero. *)
C4_MultipleOfFoundStep ==
    (Placed /\ CreateOrders # <<>>) =>
        /\ \A s \in ReportedSizes(rpcs[2].reply, call.symbol, "LOT_SIZE") :
              s # 0 => Sent.quantity % s = 0
        /\ call.op \in PricedOps =>
              \A t \in ReportedSizes(rpcs[3].reply, call.symbol, "PRICE_FILTER") :
                 t # 0 => Sent.price % t = 0
        /\ call.op = "place_stop_limit_order" =>
              \A t \in ReportedSizes(rpcs[4].reply, call.symbol, "PRICE_FILTER") :
                 t # 0 => Sent.stopPrice % t = 0

C4_Witness ==
    /\ Placed /\ call.op = "place_stop_limit_order" /\ CreateOrders # <<>>
    /\ FoundStep(rpcs[2].reply, call.symbol, "LOT_SIZE")
    /\ FoundStep(rpcs[3].reply, call.symbol, "PRICE_FILTER")
    /\ FoundStep(rpcs[4].reply, call.symbol, "PRICE_FILTER")
    /\ Sent.quantity # call.quantity /\ Sent.quantity > 0
    /\ Sent.price = call.price
    /\ Sent.stopPrice # call.stop_price

(* C5: the quantity, price and stopPrice of the createOrder request of a
   place_* call never exceed the values the caller passed, whether the
   lookups of the quantization succeeded or failed. *)
C5_NeverExceedsInput ==
    (Placed /\ CreateOrders # <<>>) =>
        /\ Sent.quantity <= call.quantity
        /\ call.op \in PricedOps => Sent.price <= call.price
        /\ call.op = "place_stop_limit_order" => Sent.stopPrice <= call.stop_price

C5_Witness ==
    /\ Placed /\ call.op = "place_stop_limit_order" /\ CreateOrders # <<>>
    /\ Sent.quantity < call.quantity
    /\ ~rpcs[3].reply.ok /\ Sent.price = call.price
    /\ Sent.stopPrice < call.stop_price

(* The lookup of a quantization failed: the query raised, the symbol is not in
   the list, or the list entry has no filter of the type *)
LookupFailed(reply, symbol, filterType) == ReportedSizes(reply, symbol, filterType) = {}

(* C6: when the lookup made by adjust_quantity / adjust_price fails, the
   function returns its input unchanged without raising, and a place_* call
   whose symbol passed validation still sends the order with that value. *)
C6_LookupFailurePassesThrough ==
    /\ (Adjusted /\ LookupFailed(rpcs[1].reply, call.symbol, FilterTypeOf(call.op))) =>
          outcome = "returned" /\ result.number = call.value
    /\ (Placed /\ rpcs # <<>> /\ Lists(rpcs[1].reply, call.symbol)) =>
          /\ Len(CreateOrders) = 1
          /\ LookupFailed(rpcs[2].reply, call.symbol, "LOT_SIZE") =>
                Sent.quantity = call.quantity
          /\ (call.op \in PricedOps
                /\ LookupFailed(rpcs[3].reply, call.symbol, "PRICE_FILTER")) =>
                Sent.price = call.price
          /\ (call.op = "place_stop_limit_order"
                /\ LookupFailed(rpcs[4].reply, call.symbol, "PRICE_FILTER")) =>
                Sent.stopPrice = call.stop_price

C6_Witness ==
    /\ Placed /\ call.op = "place_limit_order" /\ Len(rpcs) = 4
    /\ Lists(rpcs[1].reply, call.symbol)
    /\ FoundStep(rpcs[1].reply, call.symbol, "LOT_SIZE")
    /\ ~rpcs[2].reply.ok
    /\ rpcs[3].reply.ok /\ ~Lists(rpcs[3].reply, call.symbol)
    /\ call.quantity % QtyStep # 0 /\ call.price % PriceTick # 0
    /\ Sent.quantity = call.quantity /\ Sent.price = call.price

Closed == pc = "done" /\ call.op = "close_all_positions"

(* The positions the position query of close_all_positions returned *)
Listed == rpcs[1].reply.positions

IsOpen(p) == p.positionAmt # 0
MatchesAsStated(p) == call.symbol = NoneSymbol \/ p.symbol = call.symbol
Matches(p) == call.symbol \in {NoneSymbol, ""} \/ p.symbol = call.symbol

CloseOrder(p, quantity) ==
    [symbol |-> p.symbol, side |-> IF p.positionAmt > 0 THEN "SELL" ELSE "BUY",
     type |-> "MARKET", quantity |-> quantity, reduceOnly |-> TRUE]

(* The client calls after the position query, split into one group per
   place_market_order call: a lone validation query, or a validation query, a
   lookup query and the createOrder request. *)
RECURSIVE GroupsOf(_)
GroupsOf(log) ==
    IF log = <<>> THEN <<>>
    ELSE IF IsCreateOrder(log[Len(log)]) /\ Len(log) >= 3
    THEN Append(GroupsOf(SubSeq(log, 1, Len(log) - 3)), SubSeq(log, Len(log) - 2, Len(log)))
    ELSE Append(GroupsOf(SubSeq(log, 1, Len(log) - 1)), <<log[Len(log)]>>)

(* C7 as stated: close_all_positions sends exactly one createOrder request per
   listed position whose amount is not zero and whose symbol matches the
   filter (every symbol without a filter), in list order: MARKET, reduceOnly,
   SELL for a positive and BUY for a negative amount, quantity |amount|; and
   no other request. *)
C7_AsStated ==
    (Closed /\ rpcs[1].reply.ok) =>
        LET due == SelectSeq(Listed, LAMBDA p : IsOpen(p) /\ MatchesAsStated(p))
        IN  /\ Len(CreateOrders) = Len(due)
            /\ \A i \in 1 .. Len(due) :
                  CreateOrders[i].params = CloseOrder(due[i], Abs(due[i].positionAmt))

(* C7 amended: close_all_positions calls place_market_order once, in list
   order, for each listed position whose amount is not zero and whose symbol
   matches the filter (every symbol when the filter is None or empty), and for
   no other position.  Each call sends one createOrder request when its symbol
   validation succeeds and none when it fails; the request is MARKET,
   reduceOnly, SELL for a positive and BUY for a negative amount, and its
   quantity is |amount| rounded down to the LOT_SIZE step its lookup finds,
   |amount| itself when the lookup finds no step other than zero. *)
C7_OneCloseOrderPerValidatedPosition ==
    (Closed /\ rpcs[1].reply.ok) =>
        LET due == SelectSeq(Listed, LAMBDA p : IsOpen(p) /\ Matches(p))
            groups == GroupsOf(Tail(rpcs))
        IN  /\ Len(groups) = Len(due)
            /\ \A i \in 1 .. Len(due) :
                  LET g == groups[i]
                      p == due[i]
                      amount == Abs(p.positionAmt)
                  IN  /\ IsExchangeInfo(g[1])
                      /\ IF Lists(g[1].reply, p.symbol)
                         THEN /\ Len(g) = 3
                              /\ IsExchangeInfo(g[2])
                              /\ IsCreateOrder(g[3])
                              /\ \E quantity \in 0 .. amount :
                                    /\ g[3].params = CloseOrder(p, quantity)
                                    /\ IF FoundStep(g[2].reply, p.symbol, "LOT_SIZE")
                                       THEN \A s \in ReportedSizes(g[2].reply, p.symbol,
                                                                   "LOT_SIZE") :
                                               /\ quantity % s = 0
                                               /\ quantity > amount - s
                                       ELSE quantity = amount
                         ELSE Len(g) = 1

C7_Witness ==
    /\ Closed /\ rpcs[1].reply.ok
    /\ call.symbol = "BTCUSDT"
    /\ Len(Listed) = 2
    /\ Listed[1].symbol = "ETHUSDT" /\ Listed[1].positionAmt # 0
    /\ Listed[2].symbol = "BTCUSDT" /\ Listed[2].positionAmt < 0
    /\ Len(CreateOrders) = 1
    /\ CreateOrders[1].params.side = "BUY"
    /\ CreateOrders[1].params.quantity < Abs(Listed[2].positionAmt)

(* How many entries of a sequence satisfy a test *)
Count(seq, Test(_)) == Len(SelectSeq(seq, Test))

(* C8: in close_all_positions a position whose order fails (validation or
   gateway error) is logged and every later matching position with a non-zero
   amount is still attempted, and the operation returns normally; a failure of
   the position query itself raises to the caller with no order sent. *)
C8_FailuresDoNotStopTheLoop ==
    Closed =>
        IF rpcs[1].reply.ok
        THEN LET due == SelectSeq(Listed, LAMBDA p : IsOpen(p) /\ Matches(p))
                 groups == GroupsOf(Tail(rpcs))
             IN  /\ outcome = "returned"
                 /\ Len(groups) = Len(due)
                 /\ \A i \in 1 .. Len(groups) : IsExchangeInfo(groups[i][1])
                 /\ Count(logged, LAMBDA m : m = "Error closing position")
                      = Count(groups, LAMBDA g : Len(g) = 1 \/ ~g[Len(g)].ok)
        ELSE /\ outcome = "raised"
             /\ Len(rpcs) = 1
             /\ logged = <<"Error in close_all_positions">>

C8_Witness ==
    /\ Closed /\ rpcs[1].reply.ok /\ outcome = "returned"
    /\ Len(Listed) = 2
    /\ Len(rpcs) = 7
    /\ IsCreateOrder(rpcs[4]) /\ ~rpcs[4].ok
    /\ IsCreateOrder(rpcs[7]) /\ rpcs[7].ok
    /\ Count(logged, LAMBDA m : m = "Error closing position") = 1

GatewayOps ==
    PlaceOps \cup {"cancel_order", "get_order_status", "get_open_orders",
                   "get_account_balance", "get_position"}

CallFailed(c) ==
    IF c.rpc \in {"futures_exchange_info", "futures_position_information", "futures_account"}
    THEN ~c.reply.ok
    ELSE ~c.ok

(* The k-th client call is a lookup of the quantization *)
IsLookup(k) == call.op \in PlaceOps /\ k > 1 /\ IsExchangeInfo(rpcs[k])

(* C9: whenever a client call of a gateway operation fails, other than a
   lookup of the quantization, the operation raises to its caller; it never
   returns a normal result for a failed exchange call. *)
C9_AsStated ==
    (pc = "done" /\ call.op \in GatewayOps) =>
        \A k \in 1 .. Len(rpcs) :
            (CallFailed(rpcs[k]) /\ ~IsLookup(k)) => outcome = "raised"

(* C10: no request is sent twice: a place_* call sends at most one createOrder
   request, cancel_order / get_order_status send at most one request, and
   close_all_positions sends at most one createOrder request per position it
   has to close, whether the requests succeed or fail. *)
C10_NoRequestResent ==
    pc = "done" =>
        /\ call.op \in PlaceOps => Len(CreateOrders) <= 1
        /\ call.op = "cancel_order" =>
              Count(rpcs, LAMBDA c : c.rpc = "futures_cancel_order") <= 1
        /\ call.op = "get_order_status" =>
              Count(rpcs, LAMBDA c : c.rpc = "futures_get_order") <= 1
        /\ call.op = "close_all_positions" =>
              /\ Len(CreateOrders) <= Len(SelectSeq(Listed, IsOpen))
              /\ \A i \in 1 .. Len(rpcs) - 1 :
                    ~(IsCreateOrder(rpcs[i]) /\ IsCreateOrder(rpcs[i + 1]))

C10_Witness ==
    /\ Closed /\ rpcs[1].reply.ok
    /\ Len(SelectSeq(Listed, IsOpen)) = 2
    /\ Len(CreateOrders) = 2
    /\ ~CreateOrders[1].ok /\ ~CreateOrders[2].ok

(* The ValueErrors a place_* call raises for a rejected intent *)
InvalidSymbol == "ValueError: Invalid symbol"

ArgumentErrors ==
    {"ValueError: Side must be either 'BUY' or 'SELL'",
     "ValueError: Quantity must be positive",
     "ValueError: Price must be positive",
     "ValueError: Stop price must be positive",
     "ValueError: Time in force must be 'GTC', 'IOC', or 'FOK'"}

ValidationErrors == ArgumentErrors \cup {InvalidSymbol}

RejectedIntent == Placed /\ outcome = "raised" /\ error \in ValidationErrors

(* C11 as stated: whenever a place_* call rejects an intent with a validation
   error (bad side, bad timeInForce, non-positive quantity, price or stopPrice,
   unknown symbol), no client call was made during the call. *)
C11_AsStated == RejectedIntent => rpcs = <<>>

(* C11 amended: a place_* call that rejects an intent for its side, quantity,
   price, stopPrice or timeInForce has made no client call; one that rejects it
   for an unknown symbol has made exactly one, the exchange-info query of the
   symbol validation, which failed or did not list the symbol, and no
   createOrder request. *)
C11_OnlyTheSymbolCheckAsks ==
    RejectedIntent =>
        IF error \in ArgumentErrors
        THEN rpcs = <<>>
        ELSE /\ Len(rpcs) = 1
             /\ IsExchangeInfo(rpcs[1])
             /\ ~Lists(rpcs[1].reply, call.symbol)

C11_Witness ==
    /\ RejectedIntent
    /\ call.op = "place_limit_order"
    /\ error = InvalidSymbol
    /\ Len(rpcs) = 1 /\ ~rpcs[1].reply.ok

MarketFields == {"symbol", "side", "type", "quantity", "reduceOnly"}
LimitFields == MarketFields \cup {"price", "timeInForce"}
StopLimitFields == LimitFields \cup {"stopPrice"}

(* The wire type and the field set of the requests an operation sends *)
WireTypeOf(op) ==
    CASE op = "place_limit_order" -> "LIMIT"
      [] op = "place_stop_limit_order" -> "STOP"
      [] OTHER -> "MARKET"

FieldsOf(op) ==
    CASE op = "place_limit_order" -> LimitFields
      [] op = "place_stop_limit_order" -> StopLimitFields
      [] OTHER -> MarketFields

(* C12: every createOrder request has exactly the fields of its order kind: a
   market order (place_market_order, close_all_positions) carries symbol, side,
   type MARKET, quantity, reduceOnly and no price, stopPrice or timeInForce; a
   limit order carries price and timeInForce in addition, type LIMIT, and no
   stopPrice; a stop-limit order carries price, stopPrice and timeInForce,
   type STOP.  The side sent is BUY or SELL and the timeInForce sent is GTC,
   IOC or FOK. *)
C12_RequestHasFieldsOfItsKind ==
    pc = "done" =>
        \A i \in 1 .. Len(CreateOrders) :
            LET sent == CreateOrders[i].params
            IN  /\ DOMAIN sent = FieldsOf(call.op)
                /\ sent.type = WireTypeOf(call.op)
                /\ sent.side \in {"BUY", "SELL"}
                /\ "timeInForce" \in DOMAIN sent =>
                      sent.timeInForce \in {"GTC", "IOC", "FOK"}

C12_Witness ==
    /\ Placed /\ call.op = "place_stop_limit_order" /\ call.side = "sell"
    /\ CreateOrders # <<>>
    /\ Sent.side = "SELL" /\ Sent.type = "STOP"
    /\ DOMAIN Sent = StopLimitFields

(* The step or tick the lookup of a direct adjust_* call reported is zero *)
ZeroStepReported ==
    ReportedSizes(rpcs[1].reply, call.symbol, FilterTypeOf(call.op)) = {0}

(* C13: when the step (adjust_quantity) or tick (adjust_price) reported for
   the symbol is zero, the function returns its input unchanged, for every
   input value, and raises nothing to its caller. *)
C13_ZeroStepReturnsInput ==
    (Adjusted /\ ZeroStepReported) =>
        /\ outcome = "returned"
        /\ error = ""
        /\ result.number = call.value

C13_Witness ==
    /\ Adjusted /\ ZeroStepReported
    /\ call.op = "adjust_price"
    /\ call.value < 0
    /\ result.number = call.value
    /\ logged = <<"Error adjusting price">>

(* The error of the earliest rule a place_* call's arguments violate, in the
   order side, quantity, price, stopPrice, timeInForce ("" when none); the
   side rule is the one the code applies, on the upper-cased side. *)
FirstViolation ==
    IF Upper(call.side) \notin {"BUY", "SELL"}
    THEN "ValueError: Side must be either 'BUY' or 'SELL'"
    ELSE IF call.quantity <= 0
    THEN "ValueError: Quantity must be positive"
    ELSE IF call.op \in PricedOps /\ call.price <= 0
    THEN "ValueError: Price must be positive"
    ELSE IF call.op = "place_stop_limit_order" /\ call.stop_price <= 0
    THEN "ValueError: Stop price must be positive"
    ELSE IF call.op \in PricedOps /\ call.time_in_force \notin {"GTC", "IOC", "FOK"}
    THEN "ValueError: Time in force must be 'GTC', 'IOC', or 'FOK'"
    ELSE ""

(* C14: validation is fail-fast in the order side, quantity, price, stopPrice,
   timeInForce, symbol: a place_* call whose arguments violate several rules
   raises the error of the earliest violated one, and the symbol check, the
   only one that queries the exchange, is made exactly when all the earlier
   checks passed (it is then the first client call, and its failure is the
   'Invalid symbol' error). *)
C14_FirstViolationWins ==
    Placed =>
        IF FirstViolation # ""
        THEN /\ outcome = "raised"
             /\ error = FirstViolation
             /\ rpcs = <<>>
        ELSE /\ rpcs # <<>>
             /\ IsExchangeInfo(rpcs[1])
             /\ error = InvalidSymbol <=> ~Lists(rpcs[1].reply, call.symbol)

C14_Witness ==
    /\ Placed /\ call.op = "place_stop_limit_order"
    /\ call.symbol = "btcusdt"
    /\ Upper(call.side) = "SELL" /\ call.quantity > 0
    /\ call.price <= 0 /\ call.stop_price <= 0 /\ call.time_in_force = "gtc"
    /\ error = "ValueError: Price must be positive"
    /\ rpcs = <<>>

(* C16: every createOrder request of a place_* call carries a quantity > 0
   and, where present, a price > 0 and a stopPrice > 0, also when the caller's
   value is smaller than the step or tick of the symbol. *)
C16_AsStated ==
    (Placed /\ CreateOrders # <<>>) =>
        /\ Sent.quantity > 0
        /\ call.op \in PricedOps => Sent.price > 0
        /\ call.op = "place_stop_limit_order" => Sent.stopPrice > 0

(* After a menu action of main_menu *)
MenuActed == call.op = "main_menu"

(* The menu action failed: a text could not be converted, or the operation it
   called raised a validation or gateway error *)
MenuFailed == MenuActed /\ outcome = "raised"

(* The lines with which the menu, and the console handler of the logger,
   display an error *)
ErrorShown ==
    \/ \E i \in 1 .. Len(printed) :
          printed[i] \in {"Error placing order", "Error checking order status",
                          "Error cancelling order", "Error fetching open orders",
                          "Error closing positions"}
    \/ logged # <<>>

(* C15: in interactive mode, after any failure during a menu action
   (malformed input such as a non-numeric quantity, price or order id, a
   validation error, a gateway error) the error is displayed and main_menu
   is back at its prompt; the menu loop ends only on choice '0'. *)
C15_AsStated ==
    MenuActed =>
        /\ MenuFailed => (pc = "menu" /\ ErrorShown)
        /\ pc # "menu" => (pc = "exited" /\ call.choice = "0")

====
